---- MODULE Spec2Model ----
(***************************************************************************)
(* Two-player 8-ball pool: the physics tick and the turn/rules state       *)
(* machine of "src/8 ball/updated.c" and "src/8 ball/previous.c".          *)
(*                                                                         *)
(* Numbers.  The C code computes in 32-bit floats.  Here every length is   *)
(* an integer number of milli-pixels (SCALE units per pixel), every        *)
(* velocity is milli-pixels per frame, unit vectors are scaled by UNIT,    *)
(* and every product or quotient is rounded to the nearest integer, as the *)
(* float operations round to the nearest float.  Thresholds (a ball inside *)
(* a pocket, two balls overlapping, a click near the cue ball) are decided *)
(* on the exact squared distances.                                         *)
(*                                                                         *)
(* One frame of main()'s loop is two steps: the input step (HandleInput    *)
(* on the frame's input sample, pc = "input") and the update step (the     *)
(* rest of UpdateGame, pc = "update").  The update step always follows the *)
(* input step; nothing else can happen in between.                         *)
(***************************************************************************)
EXTENDS Integers, Sequences, FiniteSets, TLC

\* ---------------------------------------------------------------- constants
MAX_BALLS == 16
TABLE_WIDTH == 800
TABLE_HEIGHT == 400
BALL_RADIUS == 15
POCKET_RADIUS == 28
RAIL_WIDTH == 40

\* FRICTION 0.985f, in thousandths
FRICTION == 985
\* MIN_VELOCITY 0.06f, in milli-pixels per frame
MIN_VELOCITY == 60
\* MAX_POWER_PIXELS 160.0f, in pixels
MAX_POWER_PIXELS == 160
\* MAX_SHOT_SPEED 22.0f, in pixels per frame
MAX_SHOT_SPEED == 22
\* MAX_BALL_SPEED 26.0f, in pixels per frame
MAX_BALL_SPEED == 26
\* the rail restitution -0.86f, in hundredths
RESTITUTION == 86
\* recoilTimer = 0.12f seconds, in 1/6000 second
RECOIL_TIME == 720
\* 1.0f/60.0f seconds, in 1/6000 second
FRAME_TIME == 100
\* stickPullPixels *= 0.92f, in hundredths
RECOIL_DECAY == 92
\* stickLength = 120.0f, in pixels
STICK_LENGTH == 120

\* milli-pixels per pixel: the resolution of positions and velocities
SCALE == 1000
\* the length of a unit vector
UNIT == 10000

\* ------------------------------------------------------------- arithmetic
Abs(a) == IF a < 0 THEN -a ELSE a

Max(a, b) == IF a >= b THEN a ELSE b

\* a / b for b > 0, rounded to the nearest integer (half away from zero)
RDiv(a, b) == IF a >= 0 THEN (a + b \div 2) \div b ELSE -((b \div 2 - a) \div b)

\* a / 2 towards zero
Half(a) == IF a >= 0 THEN a \div 2 ELSE -((-a) \div 2)

RECURSIVE SqrtBits(_, _, _)
\* the largest r' >= r with r' * r' <= n, adding the bits b, b/2, ..., 1
SqrtBits(n, r, b) ==
    IF b = 0 THEN r
    ELSE IF r + b <= 46340 /\ (r + b) * (r + b) <= n
         THEN SqrtBits(n, r + b, b \div 2)
         ELSE SqrtBits(n, r, b \div 2)

\* sqrtf(n) rounded to the nearest integer, for 0 <= n < 2^31
Sqrt(n) ==
    LET r == SqrtBits(n, 0, 32768)
    IN  IF n - r * r > r THEN r + 1 ELSE r

\* dx*dx + dy*dy, the squared length
Len2(dx, dy) == dx * dx + dy * dy

\* sqrtf(dx*dx + dy*dy): exact to the unit up to 32 pixels per component,
\* to 32 units beyond (the squares of longer vectors exceed 32 bits)
Length(dx, dy) ==
    IF Max(Abs(dx), Abs(dy)) <= 32 * SCALE
    THEN Sqrt(Len2(dx, dy))
    ELSE 32 * Sqrt(Len2(RDiv(dx, 32), RDiv(dy, 32)))

\* Distance(a, b) of two points <<x, y>>
Distance(a, b) == Length(a[1] - b[1], a[2] - b[2])

\* Distance(a, b) < r, decided on the exact squares (r at most 32 pixels)
Within(a, b, r) ==
    LET dx == a[1] - b[1]
        dy == a[2] - b[2]
    IN  /\ Abs(dx) < r
        /\ Abs(dy) < r
        /\ Len2(dx, dy) < r * r

RECURSIVE Shrink(_, _)
\* a vector of the same direction with components of at most 30 pixels
Shrink(dx, dy) ==
    IF Max(Abs(dx), Abs(dy)) <= 30 * SCALE THEN <<dx, dy>>
    ELSE Shrink(Half(dx), Half(dy))

\* (dx, dy) / len, scaled by UNIT, for a non-zero vector
Normalize(dx, dy) ==
    LET s == Shrink(dx, dy)
        len == Sqrt(Len2(s[1], s[2]))
    IN  <<RDiv(s[1] * UNIT, len), RDiv(s[2] * UNIT, len)>>

\* ------------------------------------------------------------------ data
\* a point given in pixels
Px(x, y) == <<x * SCALE, y * SCALE>>

Balls == 0 .. MAX_BALLS - 1

\* the two source versions: chkPockets of previous.c assigns groups and counts
\* the remaining balls, CheckPockets of updated.c does neither
Builds == {"previous", "updated"}

\* BallType of ball idx, as ResetBalls sets it (never changed afterwards)
BallTypeOf(idx) ==
    IF idx = 0 THEN "Cue"
    ELSE IF idx = 8 THEN "Eight"
    ELSE IF idx <= 7 THEN "Solid"
    ELSE "Stripe"

\* the initial cue-ball position { TABLE_WIDTH * 0.25f, TABLE_HEIGHT * 0.5f }
CueStart == <<RDiv(TABLE_WIDTH * SCALE, 4), RDiv(TABLE_HEIGHT * SCALE, 2)>>

\* triangleStart = { TABLE_WIDTH * 0.72f, TABLE_HEIGHT * 0.5f }
TriangleStart == <<RDiv(TABLE_WIDTH * SCALE * 72, 100), RDiv(TABLE_HEIGHT * SCALE, 2)>>

\* the row of the triangle that holds ball idx (1..15): rows 0..4 hold 1..5 balls
RowOf(idx) ==
    IF idx <= 1 THEN 0 ELSE IF idx <= 3 THEN 1 ELSE IF idx <= 6 THEN 2
    ELSE IF idx <= 10 THEN 3 ELSE 4

\* the column of ball idx in its row
ColOf(idx) == idx - 1 - (RowOf(idx) * (RowOf(idx) + 1)) \div 2

\* the rack position without the shift of a row by one radius
RackPositionUnshifted(idx) ==
    IF idx = 0 THEN CueStart
    ELSE <<TriangleStart[1] + RowOf(idx) * RDiv(BALL_RADIUS * 2 * 88 * SCALE, 100),
           TriangleStart[2] + (ColOf(idx) * BALL_RADIUS * 2) * SCALE>>

\* the rack position of ball idx: offsetX = row * (BALL_RADIUS * 2 * 0.88f),
\* offsetY = col * (BALL_RADIUS * 2) - row * BALL_RADIUS
RackPosition(idx) ==
    IF idx = 0 THEN CueStart
    ELSE <<TriangleStart[1] + RowOf(idx) * RDiv(BALL_RADIUS * 2 * 88 * SCALE, 100),
           TriangleStart[2] + (ColOf(idx) * BALL_RADIUS * 2 - RowOf(idx) * BALL_RADIUS) * SCALE>>

NewBall(p) == [pos |-> p, vel |-> <<0, 0>>, pocketed |-> FALSE]

\* ResetBalls: every ball on its rack position, at rest, not pocketed
ResetBalls == [idx \in Balls |-> NewBall(RackPosition(idx))]

NewPlayer == [type |-> "None", ballsRemaining |-> 7]

Message(text, player) == [text |-> text, player |-> player]

\* InitGame: the Game aggregate after construction and after a restart
InitGame ==
    [ balls |-> ResetBalls,
      players |-> [p \in {0, 1} |-> NewPlayer],
      currentPlayer |-> 0,
      state |-> "Start",
      cueBallPos |-> CueStart,
      power |-> 0,
      aiming |-> FALSE,
      ballsMoving |-> FALSE,
      firstShot |-> TRUE,
      assignedTypes |-> FALSE,
      statusMessage |-> Message("break", -1),
      stickPullPixels |-> 0,
      stickLength |-> STICK_LENGTH * SCALE,
      stickRecoil |-> FALSE,
      recoilTimer |-> 0 ]

\* the six pocket centres of CheckPockets
Pockets ==
    << Px(RAIL_WIDTH, RAIL_WIDTH),
       <<RDiv(TABLE_WIDTH * SCALE, 2), RAIL_WIDTH * SCALE>>,
       Px(TABLE_WIDTH - RAIL_WIDTH, RAIL_WIDTH),
       Px(RAIL_WIDTH, TABLE_HEIGHT - RAIL_WIDTH),
       <<RDiv(TABLE_WIDTH * SCALE, 2), (TABLE_HEIGHT - RAIL_WIDTH) * SCALE>>,
       Px(TABLE_WIDTH - RAIL_WIDTH, TABLE_HEIGHT - RAIL_WIDTH) >>

\* Distance(position, pockets[p]) < POCKET_RADIUS for some p
InPocketZone(p) ==
    \E k \in 1 .. 6 : Within(p, Pockets[k], POCKET_RADIUS * SCALE)

\* ----------------------------------------------------------------- input
\* One frame's input sample, as raylib reports it: keyR is IsKeyPressed(KEY_R),
\* mouse is GetMousePosition(), pressed / down / released are
\* IsMouseButtonPressed / Down / Released of the left button.
Sample(keyR, mouse, pressed, down, released) ==
    [keyR |-> keyR, mouse |-> mouse, pressed |-> pressed, down |-> down,
     released |-> released]

\* the scratch-mode test that accepts every pointer position
AnyPlacement(m) == TRUE

\* the scratch-mode test: the pointer is strictly inside the rails by one radius
ValidPlacement(m) ==
    /\ m[1] > (RAIL_WIDTH + BALL_RADIUS) * SCALE
    /\ m[1] < (TABLE_WIDTH - RAIL_WIDTH - BALL_RADIUS) * SCALE
    /\ m[2] > (RAIL_WIDTH + BALL_RADIUS) * SCALE
    /\ m[2] < (TABLE_HEIGHT - RAIL_WIDTH - BALL_RADIUS) * SCALE

\* the placement that leaves the cue ball pocketed
PlaceCueBallPocketed(g, m) ==
    IF ValidPlacement(m)
    THEN [g EXCEPT !.cueBallPos = m,
                   !.balls[0].pos = m,
                   !.state = "Playing",
                   !.statusMessage = Message("placed", g.currentPlayer)]
    ELSE [g EXCEPT !.statusMessage = Message("invalid", -1)]

\* scratch mode, left button pressed: place the cue ball or reject the position
PlaceCueBall(g, m) ==
    IF ValidPlacement(m)
    THEN [g EXCEPT !.cueBallPos = m,
                   !.balls[0] = [pos |-> m, vel |-> <<0, 0>>, pocketed |-> FALSE],
                   !.state = "Playing",
                   !.statusMessage = Message("placed", g.currentPlayer)]
    ELSE [g EXCEPT !.statusMessage = Message("invalid", -1)]

\* HandleInput without the test of moving balls
InputNeverIgnored(g) == FALSE

\* "Ignore input if balls are moving"
InputIgnored(g) == g.ballsMoving

\* the local cueBallPos of HandleInput: the respawn point of a pocketed cue ball
LogicalCuePos(g) ==
    IF g.balls[0].pocketed THEN g.cueBallPos ELSE g.balls[0].pos

\* Distance(mousePos, cueBallPos) <= BALL_RADIUS * 1.6f
NearCue(m, c) ==
    LET r == RDiv(BALL_RADIUS * 16 * SCALE, 10)
        dx == m[1] - c[1]
        dy == m[2] - c[2]
    IN  /\ Abs(dx) <= r
        /\ Abs(dy) <= r
        /\ Len2(dx, dy) <= r * r

\* "Start drag if clicking near cue ball" (dragStart is written here and read
\* nowhere: it is left out of the state)
StartDrag(g, in) ==
    IF in.pressed /\ NearCue(in.mouse, LogicalCuePos(g))
    THEN [g EXCEPT !.aiming = TRUE, !.stickPullPixels = 0, !.power = 0]
    ELSE g

\* "While dragging mouse": the pull distance, capped, and the power in thousandths
Drag(g, in) ==
    IF in.down /\ g.aiming
    THEN LET d0 == Distance(in.mouse, LogicalCuePos(g))
             d == IF d0 > MAX_POWER_PIXELS * SCALE THEN MAX_POWER_PIXELS * SCALE ELSE d0
         IN  [g EXCEPT !.stickPullPixels = d, !.power = RDiv(d, MAX_POWER_PIXELS)]
    ELSE g

\* shotSpeed = (stickPullPixels / MAX_POWER_PIXELS) * MAX_SHOT_SPEED, capped
ShotSpeed(pull) ==
    LET s == RDiv(pull * MAX_SHOT_SPEED, MAX_POWER_PIXELS)
    IN  IF s > MAX_SHOT_SPEED * SCALE THEN MAX_SHOT_SPEED * SCALE ELSE s

\* len < 0.001f: the drag vector is shorter than a thousandth of a pixel
NullGesture(g, in) == in.mouse = LogicalCuePos(g)

\* the null gesture that leaves the game aiming
NullReleaseStillAiming(g, b) == g

\* the release of previous.c on a null gesture also clears pullDist and power
NullRelease(g, b) ==
    IF b = "previous"
    THEN [g EXCEPT !.aiming = FALSE, !.stickPullPixels = 0, !.power = 0]
    ELSE [g EXCEPT !.aiming = FALSE]

\* the shot that leaves firstShot as it is
ShootKeepsFirstShot(g, in) ==
    LET c == LogicalCuePos(g)
        dir == Normalize(in.mouse[1] - c[1], in.mouse[2] - c[2])
        shotSpeed == ShotSpeed(g.stickPullPixels)
    IN  [g EXCEPT !.aiming = FALSE,
                  !.balls[0].vel = <<RDiv(dir[1] * shotSpeed, UNIT),
                                     RDiv(dir[2] * shotSpeed, UNIT)>>,
                  !.state = "Playing",
                  !.stickRecoil = TRUE,
                  !.recoilTimer = RECOIL_TIME,
                  !.power = 0]

\* "Apply velocity to cue ball" and what follows it
Shoot(g, in) ==
    LET c == LogicalCuePos(g)
        dir == Normalize(in.mouse[1] - c[1], in.mouse[2] - c[2])
        shotSpeed == ShotSpeed(g.stickPullPixels)
    IN  [g EXCEPT !.aiming = FALSE,
                  !.balls[0].vel = <<RDiv(dir[1] * shotSpeed, UNIT),
                                     RDiv(dir[2] * shotSpeed, UNIT)>>,
                  !.state = "Playing",
                  !.firstShot = FALSE,
                  !.stickRecoil = TRUE,
                  !.recoilTimer = RECOIL_TIME,
                  !.power = 0]

\* this frame's release fires a shot
Fires(g, in) ==
    /\ ~in.keyR
    /\ g.state # "Scratch"
    /\ ~InputIgnored(g)
    /\ in.released
    /\ g.aiming
    /\ ~NullGesture(g, in)

\* "Release mouse -> shoot"
ReleaseMouse(g, b, in) ==
    IF g.aiming /\ in.released
    THEN IF NullGesture(g, in) THEN NullRelease(g, b) ELSE Shoot(g, in)
    ELSE g

\* HandleInput, on one frame's input sample, in build b
HandleInput(g, b, in) ==
    IF in.keyR THEN InitGame
    ELSE IF g.state = "Scratch"
    THEN IF in.pressed THEN PlaceCueBall(g, in.mouse) ELSE g
    ELSE IF InputIgnored(g) THEN g
    ELSE ReleaseMouse(Drag(StartDrag(g, in), in), b, in)

\* --------------------------------------------------------------- physics
\* ClampBallSpeed without the rescaling
Unclamped(v, maxSpeed) == v

\* ClampBallSpeed: rescale a velocity longer than maxSpeed to maxSpeed
ClampBallSpeed(v, maxSpeed) ==
    IF Len2(v[1], v[2]) > maxSpeed * maxSpeed
    THEN LET mag == Sqrt(Len2(v[1], v[2]))
         IN  <<RDiv(v[1] * maxSpeed, mag), RDiv(v[2] * maxSpeed, mag)>>
    ELSE v

\* velocity *= FRICTION, then "Stop tiny velocities"
Friction(v) ==
    LET f == RDiv(v * FRICTION, 1000)
    IN  IF Abs(f) < MIN_VELOCITY THEN 0 ELSE f

\* the rail that stops a ball and leaves its velocity as it is
RailWithoutBounce(p, v, lo, hi) ==
    <<IF p < lo THEN lo ELSE IF p > hi THEN hi ELSE p, v>>

\* "Rail collision (bounce effect)" on one axis: the position clamped to
\* [lo, hi] and the velocity component negated and damped when it was outside
Rail(p, v, lo, hi) ==
    LET p1 == IF p < lo THEN lo ELSE p
        v1 == IF p < lo THEN RDiv(-(v * RESTITUTION), 100) ELSE v
    IN  IF p1 > hi THEN <<hi, RDiv(-(v1 * RESTITUTION), 100)>> ELSE <<p1, v1>>

\* the body of UpdatePhysics' loop for one ball that is not pocketed
MoveBall(ball) ==
    LET x == Rail(ball.pos[1] + ball.vel[1], Friction(ball.vel[1]),
                  (RAIL_WIDTH + BALL_RADIUS) * SCALE,
                  (TABLE_WIDTH - RAIL_WIDTH - BALL_RADIUS) * SCALE)
        y == Rail(ball.pos[2] + ball.vel[2], Friction(ball.vel[2]),
                  (RAIL_WIDTH + BALL_RADIUS) * SCALE,
                  (TABLE_HEIGHT - RAIL_WIDTH - BALL_RADIUS) * SCALE)
    IN  [ball EXCEPT !.pos = <<x[1], y[1]>>,
                     !.vel = ClampBallSpeed(<<x[2], y[2]>>, MAX_BALL_SPEED * SCALE)]

\* UpdatePhysics' loop without the test of the pocketed flag
MoveBallsPocketedToo(balls) == [i \in Balls |-> MoveBall(balls[i])]

\* UpdatePhysics' loop: pocketed balls are skipped
MoveBalls(balls) ==
    [i \in Balls |-> IF balls[i].pocketed THEN balls[i] ELSE MoveBall(balls[i])]

\* the resolver that leaves both velocities as they are
Unresolved(a, b) == <<a, b>>

\* ResolveElasticCollision: the normal velocity components of a and b swapped,
\* the tangential ones kept
ResolveElasticCollision(a, b) ==
    LET dx == b.pos[1] - a.pos[1]
        dy == b.pos[2] - a.pos[2]
    IN  IF dx = 0 /\ dy = 0 THEN <<a, b>>
        ELSE
        LET dist == Sqrt(Len2(dx, dy))
            nx == RDiv(dx * UNIT, dist)
            ny == RDiv(dy * UNIT, dist)
            tx == -ny
            ty == nx
            va_n == RDiv(a.vel[1] * nx + a.vel[2] * ny, UNIT)
            va_t == RDiv(a.vel[1] * tx + a.vel[2] * ty, UNIT)
            vb_n == RDiv(b.vel[1] * nx + b.vel[2] * ny, UNIT)
            vb_t == RDiv(b.vel[1] * tx + b.vel[2] * ty, UNIT)
            va_n_after == vb_n
            vb_n_after == va_n
        IN  << [a EXCEPT !.vel = <<RDiv(va_n_after * nx + va_t * tx, UNIT),
                                   RDiv(va_n_after * ny + va_t * ty, UNIT)>>],
               [b EXCEPT !.vel = <<RDiv(vb_n_after * nx + vb_t * tx, UNIT),
                                   RDiv(vb_n_after * ny + vb_t * ty, UNIT)>>] >>

\* the test with dist <= minDist: touching balls collide
OverlappingOrTouching(a, b) ==
    /\ a.pos # b.pos
    /\ Abs(a.pos[1] - b.pos[1]) <= 2 * BALL_RADIUS * SCALE
    /\ Abs(a.pos[2] - b.pos[2]) <= 2 * BALL_RADIUS * SCALE
    /\ Len2(a.pos[1] - b.pos[1], a.pos[2] - b.pos[2])
           <= (2 * BALL_RADIUS * SCALE) * (2 * BALL_RADIUS * SCALE)

\* dist < minDist && dist > 0.0001f, for minDist = BALL_RADIUS * 2.0f
Overlapping(a, b) ==
    /\ a.pos # b.pos
    /\ Within(a.pos, b.pos, 2 * BALL_RADIUS * SCALE)

\* the body of CheckCollisions' inner loop for an overlapping pair: both pushed
\* apart by overlap = 0.5f * (minDist - dist + 0.001f), then the velocities
\* resolved and clamped
Collide(a, b) ==
    LET dx == b.pos[1] - a.pos[1]
        dy == b.pos[2] - a.pos[2]
        dist == Sqrt(Len2(dx, dy))
        overlap == RDiv(2 * BALL_RADIUS * SCALE - dist + 1, 2)
        nx == RDiv(dx * UNIT, dist)
        ny == RDiv(dy * UNIT, dist)
        px == RDiv(nx * overlap, UNIT)
        py == RDiv(ny * overlap, UNIT)
        r == ResolveElasticCollision(
                 [a EXCEPT !.pos = <<a.pos[1] - px, a.pos[2] - py>>],
                 [b EXCEPT !.pos = <<b.pos[1] + px, b.pos[2] + py>>])
    IN  << [r[1] EXCEPT !.vel = ClampBallSpeed(r[1].vel, MAX_BALL_SPEED * SCALE)],
           [r[2] EXCEPT !.vel = ClampBallSpeed(r[2].vel, MAX_BALL_SPEED * SCALE)] >>

RECURSIVE CollideRow(_, _, _)
\* CheckCollisions' inner loop for ball i, which is not pocketed, from j on
CollideRow(balls, i, j) ==
    IF j >= MAX_BALLS THEN balls
    ELSE IF balls[j].pocketed \/ ~Overlapping(balls[i], balls[j])
         THEN CollideRow(balls, i, j + 1)
    ELSE LET r == Collide(balls[i], balls[j])
         IN  CollideRow([balls EXCEPT ![i] = r[1], ![j] = r[2]], i, j + 1)

RECURSIVE CollideFrom(_, _)
\* CheckCollisions' outer loop from ball i on
CollideFrom(balls, i) ==
    IF i >= MAX_BALLS - 1 THEN balls
    ELSE IF balls[i].pocketed THEN CollideFrom(balls, i + 1)
    ELSE CollideFrom(CollideRow(balls, i, i + 1), i + 1)

\* CheckCollisions
CheckCollisions(balls) == CollideFrom(balls, 0)

\* AreBallsMoving
AreBallsMoving(balls) ==
    \E i \in Balls :
        /\ ~balls[i].pocketed
        /\ \/ Abs(balls[i].vel[1]) > MIN_VELOCITY
           \/ Abs(balls[i].vel[2]) > MIN_VELOCITY

\* ----------------------------------------------------------------- rules
\* playerIndexForType: the player who owns the group of a ball type, or -1
playerIndexForType(g, btype) ==
    IF btype = "Solid" /\ g.players[0].type = "Solids" THEN 0
    ELSE IF btype = "Solid" /\ g.players[1].type = "Solids" THEN 1
    ELSE IF btype = "Stripe" /\ g.players[0].type = "Stripes" THEN 0
    ELSE IF btype = "Stripe" /\ g.players[1].type = "Stripes" THEN 1
    ELSE -1

\* the guard without the test of assignedType
AssignsTypesAgain(g) == g.firstShot

\* the guard without the test of firstShot
AssignsTypesOnce(g) == ~g.assignedTypes

\* the guard of chkPockets' group assignment (previous.c)
AssignsTypes(g) == ~g.assignedTypes /\ g.firstShot

\* chkPockets of previous.c, ball i pocketed: the current player gets the group
\* of a Solid (and of anything else: Stripes), the other player the other group
AssignTypes(g, i) ==
    IF AssignsTypes(g)
    THEN LET mine == IF BallTypeOf(i) = "Solid" THEN "Solids" ELSE "Stripes"
             other == IF BallTypeOf(i) = "Solid" THEN "Stripes" ELSE "Solids"
         IN  [g EXCEPT !.players[g.currentPlayer].type = mine,
                       !.players[1 - g.currentPlayer].type = other,
                       !.assignedTypes = TRUE]
    ELSE g

\* the count without the test of ballsRemaining > 0
CountBallBelowZero(g, i) ==
    LET owner == playerIndexForType(g, BallTypeOf(i))
    IN  IF owner >= 0
        THEN [g EXCEPT !.players[owner].ballsRemaining = @ - 1]
        ELSE g

\* chkPockets of previous.c, a ball other than the cue and the eight pocketed:
\* its owner, when it has one with balls remaining, has one ball less
CountBall(g, i) ==
    LET owner == playerIndexForType(g, BallTypeOf(i))
    IN  IF owner >= 0 /\ g.players[owner].ballsRemaining > 0
        THEN [g EXCEPT !.players[owner].ballsRemaining = @ - 1]
        ELSE g

\* the 8-ball is pocketed: the current player has a group and has cleared it
EightBallWins(g) ==
    LET me == g.players[g.currentPlayer]
    IN  \/ me.type = "Solids" /\ me.ballsRemaining = 0
        \/ me.type = "Stripes" /\ me.ballsRemaining = 0

\* the 8-ball logic with its two outcomes exchanged
EightBallSwapped(g) ==
    IF EightBallWins(g) THEN [g EXCEPT !.state = "Lost"] ELSE [g EXCEPT !.state = "Won"]

\* "8-ball logic"
EightBall(g) ==
    IF EightBallWins(g) THEN [g EXCEPT !.state = "Won"] ELSE [g EXCEPT !.state = "Lost"]

\* CheckPockets without the return
NeverStops(i) == FALSE

\* the return that ends CheckPockets when the 8-ball is pocketed
StopsAtEight(i) == BallTypeOf(i) = "Eight"

\* the body of CheckPockets' loop for ball i, which is inside a pocket
PocketBall(g, b, i) ==
    LET g1 == [g EXCEPT !.balls[i].pocketed = TRUE, !.balls[i].vel = <<0, 0>>]
    IN  IF i = 0 THEN [g1 EXCEPT !.cueBallPos = CueStart]
        ELSE LET g2 == IF b = "previous" THEN AssignTypes(g1, i) ELSE g1
             IN  IF BallTypeOf(i) = "Eight" THEN EightBall(g2)
                 ELSE IF b = "previous" THEN CountBall(g2, i) ELSE g2

RECURSIVE Scan(_, _, _, _)
\* CheckPockets' loop from ball i on; r carries the game and the locals
\* cueBallPocketed and anyPocketed, and returned: the loop was left by the
\* 8-ball's return
Scan(r, b, i, last) ==
    IF i > last THEN r
    ELSE IF r.g.balls[i].pocketed \/ ~InPocketZone(r.g.balls[i].pos)
         THEN Scan(r, b, i + 1, last)
    ELSE LET r1 == [g |-> PocketBall(r.g, b, i),
                    cueBallPocketed |-> r.cueBallPocketed \/ i = 0,
                    anyPocketed |-> TRUE,
                    returned |-> StopsAtEight(i)]
         IN  IF r1.returned THEN r1 ELSE Scan(r1, b, i + 1, last)

\* the scratch that ends the game
ApplyScratchLoses(g) == [g EXCEPT !.state = "Lost"]

\* ApplyScratch without the change of player
ApplyScratchKeepsPlayer(g) ==
    [g EXCEPT !.state = "Scratch", !.statusMessage = Message("scratch", -1)]

\* ApplyScratch
ApplyScratch(g) ==
    [g EXCEPT !.state = "Scratch",
              !.statusMessage = Message("scratch", -1),
              !.currentPlayer = 1 - g.currentPlayer]

\* the "<player> pocketed a ball!" message, naming game->currentPlayer
PocketedMessage(g) ==
    [g EXCEPT !.statusMessage = Message("pocketed", g.currentPlayer)]

\* CheckPockets: the game and the locals of the call
CheckPockets(g, b) ==
    LET r == Scan([g |-> g, cueBallPocketed |-> FALSE, anyPocketed |-> FALSE,
                   returned |-> FALSE], b, 0, MAX_BALLS - 1)
    IN  IF r.returned THEN r
        ELSE LET g1 == IF r.cueBallPocketed THEN ApplyScratch(r.g) ELSE r.g
                 g2 == IF r.anyPocketed THEN PocketedMessage(g1) ELSE g1
             IN  [r EXCEPT !.g = g2]

\* UpdatePhysics: move, collide, pocket
UpdatePhysics(g, b) ==
    CheckPockets([g EXCEPT !.balls = CheckCollisions(MoveBalls(g.balls))], b)

\* CheckWinCondition: a message only
CheckWinCondition(g) ==
    IF EightBallWins(g) THEN [g EXCEPT !.statusMessage = Message("shoot8", -1)] ELSE g

\* NextTurn
NextTurn(g) ==
    [g EXCEPT !.currentPlayer = 1 - g.currentPlayer,
              !.statusMessage = Message("turn", 1 - g.currentPlayer)]

\* "Handle cue stick recoil animation after shot"
Recoil(g) ==
    IF ~g.stickRecoil THEN g
    ELSE IF g.recoilTimer - FRAME_TIME <= 0
         THEN [g EXCEPT !.recoilTimer = @ - FRAME_TIME, !.stickRecoil = FALSE,
                        !.stickPullPixels = 0]
    ELSE LET pull == RDiv(g.stickPullPixels * RECOIL_DECAY, 100)
         IN  [g EXCEPT !.recoilTimer = @ - FRAME_TIME, !.stickPullPixels = pull,
                       !.power = RDiv(pull, MAX_POWER_PIXELS)]

\* "When balls stop" without the test of the state
BallsStoppedAnyState(g) == NextTurn(CheckWinCondition(g))

\* "When balls stop": the turn passes while the state is Playing
BallsStopped(g) ==
    IF g.state = "Playing"
    THEN LET g1 == CheckWinCondition(g)
         IN  IF g1.state # "Won" /\ g1.state # "Lost" THEN NextTurn(g1) ELSE g1
    ELSE g

\* the motion edges without the detection of the stop
MotionStartOnly(g) ==
    IF ~g.ballsMoving /\ AreBallsMoving(g.balls) THEN [g EXCEPT !.ballsMoving = TRUE] ELSE g

\* the motion edges of UpdateGame, after UpdatePhysics
MotionEdges(g) ==
    LET moving == AreBallsMoving(g.balls)
        g1 == IF ~g.ballsMoving /\ moving THEN [g EXCEPT !.ballsMoving = TRUE] ELSE g
    IN  IF g1.ballsMoving /\ ~moving
        THEN BallsStopped([g1 EXCEPT !.ballsMoving = FALSE])
        ELSE g1

\* physics in every state
PhysicsRunsAlways(g) == TRUE

\* "Only update physics during play or scratch state"
PhysicsRuns(g) == g.state = "Playing" \/ g.state = "Scratch"

\* UpdateGame after its call of HandleInput: the game and the locals of the
\* frame's CheckPockets call (all FALSE when physics did not run)
AfterInput(g, b) ==
    LET g1 == Recoil(g)
    IN  IF PhysicsRuns(g1)
        THEN LET r == UpdatePhysics(g1, b)
             IN  [r EXCEPT !.g = MotionEdges(r.g)]
        ELSE [g |-> g1, cueBallPocketed |-> FALSE, anyPocketed |-> FALSE,
              returned |-> FALSE]

\* ------------------------------------------------------------ the bounds
\* fired shots explored per run
MaxShots == 2

\* where the pointer goes down: on the cue ball of the rack, near the cue ball
\* of the tables below, on the bottom rail (no legal placement), inside the
\* bottom side pocket's zone and beside the ball that lies at the bottom-left
\* pocket (both legal placements)
PressPos ==
    {Px(200, 200), Px(680, 345), Px(380, 345), Px(400, 344), <<93300, 344000>>}

\* where the pointer is held while aiming
HoldPos == {Px(533, 345)}

\* where the pointer is released
ReleasePos == {Px(744, 345)}

\* ------------------------------------------------------- tables in play
\* where a pocketed ball was last: inside the top-right pocket's zone
PocketedAt == Px(745, 55)

\* A table in mid-game: the balls of `on` at rest on the given positions, every
\* other ball pocketed; no group assigned, as no pocketing assigns one
\* (AssignsTypes needs firstShot, which the first shot clears); player cur to shoot
MidGame(on, cur) ==
    [InitGame EXCEPT
        !.balls = [i \in Balls |->
                     IF i \in DOMAIN on THEN NewBall(on[i])
                     ELSE [pos |-> PocketedAt, vel |-> <<0, 0>>, pocketed |-> TRUE]],
        !.state = "Playing",
        !.currentPlayer = cur,
        !.firstShot = FALSE,
        !.statusMessage = Message("turn", cur)]

\* cue ball and 8-ball on the bottom rail, the 8-ball before the right corner
EightAtCorner == (0 :> Px(660, 345)) @@ (8 :> Px(700, 345))

\* cue ball left of the bottom side pocket, the 8-ball right of it, both on
\* the rail; ball 9 on the rail at the edge of the bottom-left pocket's zone
EightAcrossSide ==
    (0 :> <<372500, 345000>>) @@ (8 :> Px(424, 345)) @@ (9 :> <<63800, 345000>>)

\* the same with ball 1 right of the side pocket and the 8-ball out of the way
SolidAcrossSide ==
    (0 :> <<372500, 345000>>) @@ (1 :> Px(424, 345)) @@ (8 :> Px(600, 200))
        @@ (9 :> <<63800, 345000>>)

\* the 8-ball on the bottom rail before the right corner, the cue ball five
\* pixels off the rail: a shot along the rail cuts the 8-ball into the corner
\* and leaves the cue ball rolling
EightCut == (0 :> Px(660, 340)) @@ (8 :> Px(700, 345))

Tables == {EightAtCorner, EightAcrossSide, SolidAcrossSide, EightCut}

\* ------------------------------------------------------------- the system
VARIABLES
    game,       \* the Game aggregate
    build,      \* the source version that runs
    btnDown,    \* raylib: the left button was down in the previous frame
    pc,         \* "input": HandleInput is next; "update": the rest of UpdateGame
    event,      \* the input of the frame in progress ("none" between frames)
    scan,       \* the locals of the last frame's CheckPockets call
    fell,       \* the last frame saw the falling edge of ballsMoving
    shots,      \* shots fired so far
    shooter,    \* the player who fired the last shot, -1 before the first
    scratches   \* ApplyScratch calls since the last shot (counted up to 2)

vars == <<game, build, btnDown, pc, event, scan, fell, shots, shooter, scratches>>

NoScan == [cueBallPocketed |-> FALSE, anyPocketed |-> FALSE, returned |-> FALSE]

Init ==
    /\ build \in Builds
    /\ game \in {InitGame} \cup {MidGame(t, 0) : t \in Tables}
    /\ btnDown = FALSE
    /\ pc = "input"
    /\ event = "none"
    /\ scan = NoScan
    /\ fell = FALSE
    /\ shots = 0
    /\ shooter = -1
    /\ scratches = 0

\* the input step of a frame: HandleInput on the sample in, named kind
Input(kind, in) ==
    /\ pc = "input"
    /\ Fires(game, in) => shots < MaxShots
    /\ game' = HandleInput(game, build, in)
    /\ btnDown' = in.down
    /\ pc' = "update"
    /\ event' = kind
    /\ shots' = IF Fires(game, in) THEN shots + 1 ELSE shots
    /\ shooter' = IF in.keyR THEN -1
                  ELSE IF Fires(game, in) THEN game.currentPlayer ELSE shooter
    /\ scratches' = IF in.keyR \/ Fires(game, in) THEN 0 ELSE scratches
    /\ UNCHANGED <<build, scan, fell>>

\* R is pressed (the left button is down or up)
PressR ==
    \E d \in BOOLEAN :
        Input("reset", Sample(TRUE, <<0, 0>>, ~btnDown /\ d, d, btnDown /\ ~d))

\* the left button goes down at m
PressButton ==
    /\ ~btnDown
    /\ \E m \in PressPos : Input("press", Sample(FALSE, m, TRUE, TRUE, FALSE))

\* the left button stays down, the pointer at m
HoldButton ==
    /\ btnDown
    /\ \E m \in HoldPos : Input("hold", Sample(FALSE, m, FALSE, TRUE, FALSE))

\* the left button goes up at m: at a release point or on the cue ball's centre
ReleaseButton ==
    /\ btnDown
    /\ \E m \in ReleasePos \cup {LogicalCuePos(game)} :
           Input("release", Sample(FALSE, m, FALSE, FALSE, TRUE))

\* no key and no button
NoInput ==
    /\ ~btnDown
    /\ Input("idle", Sample(FALSE, <<0, 0>>, FALSE, FALSE, FALSE))

\* the update step of a frame: UpdateGame after HandleInput
Update ==
    /\ pc = "update"
    /\ \E r \in {AfterInput(game, build)} :
           /\ game' = r.g
           /\ scan' = [cueBallPocketed |-> r.cueBallPocketed,
                       anyPocketed |-> r.anyPocketed, returned |-> r.returned]
           /\ scratches' = IF r.cueBallPocketed /\ ~r.returned /\ scratches < 2
                           THEN scratches + 1 ELSE scratches
    /\ fell' = (game.ballsMoving /\ ~game'.ballsMoving)
    /\ pc' = "input"
    /\ event' = "none"
    /\ UNCHANGED <<build, btnDown, shots, shooter>>

Next == PressR \/ PressButton \/ HoldButton \/ ReleaseButton \/ NoInput \/ Update

Spec == Init /\ [][Next]_vars

\* play on the two tables with the 8-ball before the right corner
InitLoop == Init /\ game \in {MidGame(t, 0) : t \in {EightAtCorner, EightCut}}

\* a step from a frame's input to the end of its update (the steps of Update)
Tick == pc = "update" /\ pc' = "input"

\* the game loop keeps running frames: the update of a frame always follows
\* its input, and a frame without input passes when the player does nothing
SpecLoop == InitLoop /\ [][Next]_vars /\ WF_pc(Tick) /\ WF_vars(NoInput)

\* ------------------------------------------- single calls on chosen games
\* The functions of a frame applied once to games drawn from the sets below:
\* the bookkeeping of the players and the places and velocities of the balls
\* range over values that play from the rack does not produce.

\* a place at rest inside a pocket's zone, one pocket per ball of a table
ZoneSpot(i) ==
    << Px(58, 58), Px(400, 60), Px(742, 58), Px(58, 342), Px(400, 340),
       Px(742, 342) >>[(i % 6) + 1]

\* the sets of balls that lie inside pocket zones
ZoneSets == {{1}, {9}, {8}, {1, 9}, {1, 2}, {0, 1}, {1, 8, 9}, {7, 8}}

\* the groups of player 0 and player 1 with the assignedTypes flag that
\* chkPockets of previous.c sets with them
Assignments ==
    {<<"None", "None", FALSE>>, <<"Solids", "Stripes", TRUE>>,
     <<"Stripes", "Solids", TRUE>>}

\* the ballsRemaining values drawn for a player with a group
Remaining == {0, 1, 7}

\* a game whose balls of zone lie inside pocket zones, the cue ball and the
\* 8-ball on the table when they are not among them, every other ball
\* pocketed; asg and left are the players' groups and counts
Pocketing(zone, asg, left, cur, first) ==
    [MidGame([i \in zone \cup {0, 8} |->
                 IF i \in zone THEN ZoneSpot(i)
                 ELSE IF i = 0 THEN Px(200, 200) ELSE Px(600, 200)], cur)
        EXCEPT !.players = [p \in {0, 1} |->
                               [type |-> asg[p + 1], ballsRemaining |-> left[p + 1]]],
               !.assignedTypes = asg[3],
               !.firstShot = first]

\* the players' groups and counts: 7 and 7 while no group is assigned
Bookkeeping ==
    {k \in Assignments \X (Remaining \X Remaining) : k[1][3] \/ k[2] = <<7, 7>>}

PocketingGames ==
    {Pocketing(z, k[1], k[2], c, f) :
        z \in ZoneSets, k \in Bookkeeping, c \in {0, 1}, f \in BOOLEAN}

\* velocity components, and the velocities of at most MAX_BALL_SPEED
Components == {-20000, 0, 7000, 20000, MAX_BALL_SPEED * SCALE}

Velocities ==
    {v \in Components \X Components :
        Len2(v[1], v[2]) <= (MAX_BALL_SPEED * SCALE) * (MAX_BALL_SPEED * SCALE)}

\* where ball 1 lies: mid-table, before the left rail, before the bottom rail,
\* half a pixel inside the left rail (where the push of a collision left it)
FirstAt == {Px(300, 200), Px(60, 200), Px(300, 340), <<54500, 200000>>}

\* where ball 2 lies from ball 1: touching (30 apart), overlapping by one
\* pixel along x, overlapping by one pixel on a slant (20, -21), far away
SecondFrom == {Px(30, 0), Px(29, 0), Px(20, -21), Px(200, -100)}

\* balls 1 and 2 in motion, every other ball pocketed
Moving(p, v, d, w) ==
    [MidGame((1 :> p) @@ (2 :> <<p[1] + d[1], p[2] + d[2]>>), 0)
        EXCEPT !.balls[1].vel = v, !.balls[2].vel = w, !.ballsMoving = TRUE]

MovingGames ==
    {Moving(p, v, d, w) : p \in FirstAt, v \in Velocities, d \in SecondFrom,
                          w \in Velocities}

InitTick ==
    /\ build \in Builds
    /\ game \in PocketingGames \cup MovingGames
    /\ btnDown = FALSE
    /\ pc = "update"
    /\ event = "idle"
    /\ scan = NoScan
    /\ fell = FALSE
    /\ shots = 0
    /\ shooter = -1
    /\ scratches = 0

\* UpdatePhysics' first loop alone: move, friction, rails, clamp
Integration ==
    /\ pc = "update"
    /\ game' = [game EXCEPT !.balls = MoveBalls(game.balls)]
    /\ pc' = "moved"
    /\ UNCHANGED <<build, btnDown, event, scan, fell, shots, shooter, scratches>>

\* one call of CheckCollisions alone, on the drawn balls or on the moved ones
CollisionPass ==
    /\ pc \in {"update", "moved"}
    /\ game' = [game EXCEPT !.balls = CheckCollisions(game.balls)]
    /\ pc' = "resolved"
    /\ UNCHANGED <<build, btnDown, event, scan, fell, shots, shooter, scratches>>

\* a frame's update, one of its parts alone, or a restart after an update
NextTick == Update \/ Integration \/ CollisionPass \/ PressR

SpecTick == InitTick /\ [][NextTick]_vars

\* ------------------------------------------------------------ the claims
\* the frame in progress is a restart (R was pressed)
IsReset == event' = "reset"

\* C1: Won and Lost are terminal: once state is Won or Lost, no tick and no
\* pointer input changes state; only Reset leaves them, and it sets Start.
C1_WonLostTerminal ==
    [][(game.state \in {"Won", "Lost"} /\ game'.state # game.state)
           => (IsReset /\ game'.state = "Start")]_vars

\* ball i is pocketed in this step
PocketedNow(i) == ~game.balls[i].pocketed /\ game'.balls[i].pocketed

\* the step is a tick: the update step of a frame
IsTick == pc = "update"

\* a player with a group whose balls are all pocketed
HasClearedGroup(p) == p.type \in {"Solids", "Stripes"} /\ p.ballsRemaining = 0

\* C2: in any tick in which the 8-ball is pocketed, state becomes Won if the
\* current player has a group and no ball of it remaining, and Lost in every
\* other case.
C2_EightBallOutcome ==
    [][PocketedNow(8)
           => game'.state = IF HasClearedGroup(game'.players[game'.currentPlayer])
                            THEN "Won" ELSE "Lost"]_vars

\* C2, reached: the 8-ball was pocketed in the last tick, by a player without a
\* cleared group, and the game is lost
C2_EightPocketed ==
    /\ pc = "input"
    /\ scan.returned
    /\ game.balls[8].pocketed
    /\ ~HasClearedGroup(game.players[game.currentPlayer])
    /\ game.state = "Lost"

\* the group of an object ball
GroupOf(i) == IF BallTypeOf(i) = "Solid" THEN "Solids" ELSE "Stripes"

\* ball i is the first Solid or Stripe ball pocketed in this step's scan
FirstObjectPocketed(i) ==
    /\ BallTypeOf(i) \in {"Solid", "Stripe"}
    /\ PocketedNow(i)
    /\ \A j \in 1 .. i - 1 : BallTypeOf(j) \in {"Solid", "Stripe"} => ~PocketedNow(j)

\* C3: at the first pocketing of a Solid or Stripe ball while the types are
\* unassigned, the player whose turn it is gets that ball's group, the other
\* player the complementary group, and the types-assigned flag becomes true.
C3_FirstPocketAssigns ==
    [][\A i \in Balls :
           (IsTick /\ ~game.assignedTypes /\ FirstObjectPocketed(i))
               => /\ game'.assignedTypes
                  /\ game'.players[game.currentPlayer].type = GroupOf(i)
                  /\ game'.players[1 - game.currentPlayer].type
                         = IF GroupOf(i) = "Solids" THEN "Stripes" ELSE "Solids"]_vars

\* state becomes Scratch in this step
BecomesScratch == game.state # "Scratch" /\ game'.state = "Scratch"

\* currentPlayer flips in this step
Flips == game'.currentPlayer = 1 - game.currentPlayer

\* C4 as stated: in any tick, state becomes Scratch exactly when the cue ball
\* is pocketed in that tick, and in that tick currentPlayer flips.
C4_ScratchIffCuePocketed ==
    [][IsTick => /\ BecomesScratch <=> PocketedNow(0)
                 /\ PocketedNow(0) => Flips]_vars

\* C4, amended: in any tick, state becomes Scratch exactly when the cue ball is
\* pocketed in that tick and the 8-ball is not pocketed in the same tick, and
\* in that tick currentPlayer flips.
C4_ScratchIffCueWithoutEight ==
    [][IsTick => /\ BecomesScratch <=> (PocketedNow(0) /\ ~PocketedNow(8))
                 /\ (PocketedNow(0) /\ ~PocketedNow(8)) => Flips]_vars

\* C4, reached: the last tick pocketed the cue ball and applied the scratch
C4_Scratched ==
    /\ pc = "input"
    /\ scan.cueBallPocketed
    /\ ~scan.returned
    /\ game.balls[0].pocketed
    /\ game.state = "Scratch"

\* a shot is fired in this step
FiresNow == shots' = shots + 1

\* C5: a scratch costs the turn: after the cue ball is pocketed on player P's
\* shot, the next shot that is fired is taken with currentPlayer equal to P's
\* opponent, whatever the timing of the placement.  (Stated for the plain
\* case of one scratch since P's shot.)
C5_ScratchCostsTurn ==
    [][(FiresNow /\ scratches = 1) => game.currentPlayer = 1 - shooter]_vars

\* C6: on the falling edge of ballsMoving, currentPlayer is switched exactly
\* once in that tick if state is Playing; if state is Scratch, Won or Lost at
\* that moment, the edge does not switch it (a scratch of that tick does).
C6_FallingEdgeSwitch ==
    [][(IsTick /\ game.ballsMoving /\ ~game'.ballsMoving)
           => IF game'.state = "Playing" THEN Flips
              ELSE IF game'.state = "Scratch" /\ PocketedNow(0) THEN Flips
              ELSE game'.currentPlayer = game.currentPlayer]_vars

\* C6, reached: the last tick saw the falling edge with state Playing
C6_SettledPlaying ==
    /\ pc = "input"
    /\ fell
    /\ game.state = "Playing"
    /\ game.statusMessage = Message("turn", game.currentPlayer)

\* the step is the input step of a frame without R
IsPointerInput == pc = "input" /\ ~IsReset

\* strictly inside the playable interior: more than RAIL_WIDTH + BALL_RADIUS from
\* each table edge
Interior(m) ==
    /\ m[1] > 55000 /\ m[1] < 745000
    /\ m[2] > 55000 /\ m[2] < 345000

\* the step is HandleInput on a press at m
PressedAt(m) ==
    /\ event' = "press"
    /\ game' = HandleInput(game, build, Sample(FALSE, m, TRUE, TRUE, FALSE))

C8_ShotInputGated ==
    [][(IsPointerInput /\ (game.state = "Scratch" \/ game.ballsMoving))
           => /\ game'.aiming = game.aiming
              /\ game'.balls[0].vel = game.balls[0].vel
              /\ ~FiresNow]_vars

\* C8, reached: a press in reach of the cue ball was ignored while balls moved
C8_PressIgnored ==
    /\ pc = "update"
    /\ event = "press"
    /\ game.ballsMoving
    /\ ~game.aiming
    /\ \E m \in PressPos : NearCue(m, LogicalCuePos(game))

\* the rack: the cue ball at a quarter of the table, the triangle's apex at
\* 72 % of its width, rows 26.4 pixels apart, balls of a row 30 pixels apart
RackLayout ==
    << <<576000, 200000>>,
       <<602400, 185000>>, <<602400, 215000>>,
       <<628800, 170000>>, <<628800, 200000>>, <<628800, 230000>>,
       <<655200, 155000>>, <<655200, 185000>>, <<655200, 215000>>, <<655200, 245000>>,
       <<681600, 140000>>, <<681600, 170000>>, <<681600, 200000>>, <<681600, 230000>>,
       <<681600, 260000>> >>

\* the initial rack state, field by field
IsRackStart(g) ==
    /\ g.state = "Start"
    /\ g.currentPlayer = 0
    /\ \A p \in {0, 1} : g.players[p] = [type |-> "None", ballsRemaining |-> 7]
    /\ g.balls[0] = [pos |-> <<200000, 200000>>, vel |-> <<0, 0>>, pocketed |-> FALSE]
    /\ \A i \in 1 .. 15 :
           g.balls[i] = [pos |-> RackLayout[i], vel |-> <<0, 0>>, pocketed |-> FALSE]
    /\ ~g.aiming
    /\ ~g.ballsMoving
    /\ g.firstShot
    /\ ~g.assignedTypes
    /\ g.power = 0

\* C9: Reset from any reachable state yields exactly the initial rack state,
\* and applying Reset twice gives the same state as applying it once.
C9_ResetYieldsRack ==
    [][IsReset
           => /\ IsRackStart(game')
              /\ game' = InitGame
              /\ HandleInput(game', build, Sample(TRUE, <<0, 0>>, FALSE, FALSE, FALSE))
                     = game']_vars

\* C9, reached: R was pressed after a shot was fired, and the rack is back
C9_ResetInPlay ==
    /\ pc = "update"
    /\ event = "reset"
    /\ shots > 0
    /\ IsRackStart(game)

\* C10: when the 8-ball is pocketed in a tick, pocket detection stops at once:
\* balls with a higher index inside a pocket zone are not marked pocketed, and
\* no Scratch transition or currentPlayer flip is applied in that tick, even
\* if the cue ball was pocketed earlier in the same scan.
C10_EightEndsScan ==
    [][PocketedNow(8)
           => /\ \A i \in 9 .. 15 : ~PocketedNow(i)
              /\ game'.state # "Scratch"
              /\ game'.currentPlayer = game.currentPlayer]_vars

\* C10, reached: the last tick pocketed the cue ball and then the 8-ball
C10_CueThenEight ==
    /\ pc = "input"
    /\ scan.returned
    /\ scan.cueBallPocketed
    /\ game.balls[0].pocketed
    /\ game.balls[8].pocketed
    /\ game.state = "Lost"

\* C11: for each player, in every state 0 <= ballsRemaining <= 7, and no step
\* other than a restart increases ballsRemaining.
C11_BallsRemainingBounded ==
    /\ [](\A p \in {0, 1} : game.players[p].ballsRemaining \in 0 .. 7)
    /\ [][~IsReset
              => \A p \in {0, 1} :
                     game'.players[p].ballsRemaining
                         <= game.players[p].ballsRemaining]_vars

\* C11, reached: balls 1 and 2 were pocketed in one tick for the player of
\* the Solids, who had one ball left: the count is 0 and stays there
C11_CountAtZero ==
    /\ pc = "input"
    /\ build = "previous"
    /\ scan.anyPocketed
    /\ game.balls[1].pocketed /\ game.balls[1].pos = ZoneSpot(1)
    /\ game.balls[2].pocketed /\ game.balls[2].pos = ZoneSpot(2)
    /\ game.players[0].type = "Solids"
    /\ game.players[0].ballsRemaining = 0

\* the step is the update of a frame (all of UpdateGame after HandleInput)
IsUpdate == pc = "update" /\ pc' = "input"

\* the Solid or Stripe balls of group t pocketed in this step
PocketedOf(t) ==
    {i \in Balls : BallTypeOf(i) \in {"Solid", "Stripe"} /\ GroupOf(i) = t
                   /\ PocketedNow(i)}

TypesComplementary ==
    \/ /\ game.players[0].type = "None"
       /\ game.players[1].type = "None"
       /\ ~game.assignedTypes
    \/ /\ {game.players[0].type, game.players[1].type} = {"Solids", "Stripes"}
       /\ game.assignedTypes

\* C13: in every state either both players are unassigned and assignedTypes is
\* false, or one has the Solids, the other the Stripes and assignedTypes is
\* true; once assignedTypes is true, no step other than a restart changes a
\* player's type.
C13_TypesComplementaryIrrevocable ==
    /\ []TypesComplementary
    /\ [][game.assignedTypes /\ ~IsReset
              => /\ game'.assignedTypes
                 /\ \A p \in {0, 1} : game'.players[p].type = game.players[p].type]_vars

\* C13, reached: a tick of the break pocketed ball 1 and ball 9, the current
\* player holds the Solids, the other player the Stripes
C13_GroupsHeld ==
    /\ pc = "input"
    /\ build = "previous"
    /\ game.firstShot
    /\ scan.anyPocketed
    /\ game.balls[1].pocketed /\ game.balls[1].pos = ZoneSpot(1)
    /\ game.balls[9].pocketed /\ game.balls[9].pos = ZoneSpot(9)
    /\ game.assignedTypes
    /\ game.players[game.currentPlayer].type = "Solids"
    /\ game.players[1 - game.currentPlayer].type = "Stripes"
    /\ game.players[0].ballsRemaining = 6
    /\ game.players[1].ballsRemaining = 6

\* the game with every pocketed ball laid one pixel beside the first ball
\* that is on the table (so that it overlaps that ball)
Displaced(g) ==
    IF \A i \in Balls : g.balls[i].pocketed THEN g
    ELSE LET k == CHOOSE i \in Balls :
                      /\ ~g.balls[i].pocketed
                      /\ \A j \in 0 .. i - 1 : g.balls[j].pocketed
             at == <<g.balls[k].pos[1] + SCALE, g.balls[k].pos[2]>>
         IN  [g EXCEPT !.balls = [i \in Balls |->
                  IF g.balls[i].pocketed THEN [g.balls[i] EXCEPT !.pos = at]
                  ELSE g.balls[i]]]

\* g and h are equal but for the positions of g's pocketed balls
SameButPocketedPos(g, h) ==
    /\ [g EXCEPT !.balls = h.balls] = h
    /\ \A i \in Balls :
           IF g.balls[i].pocketed
           THEN [g.balls[i] EXCEPT !.pos = h.balls[i].pos] = h.balls[i]
           ELSE g.balls[i] = h.balls[i]

\* C14: a pocketed ball is inert: no tick changes its position; the outcome of
\* a tick is the same when the pocketed balls lie on top of a ball in play
\* (they take part in no collision), and a tick that pockets nothing anew
\* reports no pocketed ball although pocketed balls lie inside a pocket's
\* zone (they take part in no pocket test); the pocketed flag returns to false
\* only by a restart or, for the cue ball, by a press in scratch mode that
\* places it strictly inside the rails.
C14_PocketedInert ==
    /\ [][IsUpdate
              => /\ \A i \in Balls :
                        game.balls[i].pocketed
                            => /\ game'.balls[i].pocketed
                               /\ game'.balls[i].pos = game.balls[i].pos
                 /\ (\E i \in Balls : game.balls[i].pocketed)
                        => \E h \in {AfterInput(Displaced(game), build).g} :
                               SameButPocketedPos(game', h)
                 /\ scan'.anyPocketed => \E i \in Balls : PocketedNow(i)]_vars
    /\ [][\A i \in Balls :
              game.balls[i].pocketed /\ ~game'.balls[i].pocketed
                  => \/ IsReset
                     \/ /\ i = 0
                        /\ event' = "press"
                        /\ game.state = "Scratch"
                        /\ Interior(game'.balls[0].pos)]_vars

\* C14, reached: a tick has passed over a pocketed cue ball that carries the
\* velocity of a shot, while other balls lie pocketed inside a pocket's zone
C14_PocketedWithVelocity ==
    /\ pc = "input"
    /\ game.state = "Playing"
    /\ game.balls[0].pocketed
    /\ game.balls[0].vel # <<0, 0>>
    /\ game.balls[1].pocketed
    /\ InPocketZone(game.balls[1].pos)

\* vx*vx + vy*vy of ball i
Speed2(i) == Len2(game.balls[i].vel[1], game.balls[i].vel[2])

IsIntegration == pc = "update" /\ pc' = "moved"

\* the component v after friction, negated and scaled by 0.86
Bounced(v) == RDiv(-(Friction(v) * RESTITUTION), 100)

\* along one axis: the centre p' lies between the rails, and when the moved
\* centre p + v was beyond a rail the velocity v' is the bounced one
Contained(p, v, p1, v1, lo, hi) ==
    /\ lo <= p1 /\ p1 <= hi
    /\ (p + v < lo \/ p + v > hi) => v1 = Bounced(v)

\* C16: after the integration step every ball that is not pocketed has its
\* centre within RAIL_WIDTH + BALL_RADIUS of no table edge, and a ball that
\* crossed a rail has its velocity component perpendicular to the rail negated
\* and scaled by 0.86.
C16_RailContainment ==
    [][IsIntegration
           => \A i \in Balls :
                  ~game.balls[i].pocketed
                      => /\ Contained(game.balls[i].pos[1], game.balls[i].vel[1],
                                      game'.balls[i].pos[1], game'.balls[i].vel[1],
                                      (RAIL_WIDTH + BALL_RADIUS) * SCALE,
                                      (TABLE_WIDTH - RAIL_WIDTH - BALL_RADIUS) * SCALE)
                         /\ Contained(game.balls[i].pos[2], game.balls[i].vel[2],
                                      game'.balls[i].pos[2], game'.balls[i].vel[2],
                                      (RAIL_WIDTH + BALL_RADIUS) * SCALE,
                                      (TABLE_HEIGHT - RAIL_WIDTH - BALL_RADIUS) * SCALE)]_vars

\* C16, reached: the integration step has put ball 1 back on the left rail's
\* line, moving away from the rail
C16_BouncedOffLeftRail ==
    /\ pc = "moved"
    /\ ~game.balls[1].pocketed
    /\ game.balls[1].pos[1] = (RAIL_WIDTH + BALL_RADIUS) * SCALE
    /\ game.balls[1].vel[1] > 0

\* the step is one call of CheckCollisions alone
IsCollisionPass == pc' = "resolved"

\* the centres p and q are less than 2 * BALL_RADIUS apart and do not coincide
Overlap(p, q) ==
    /\ p # q
    /\ Abs(q[1] - p[1]) < 2 * BALL_RADIUS * SCALE
    /\ Abs(q[2] - p[2]) < 2 * BALL_RADIUS * SCALE
    /\ Len2(q[1] - p[1], q[2] - p[2])
           < (2 * BALL_RADIUS * SCALE) * (2 * BALL_RADIUS * SCALE)

\* the unit vector of the line of centres from p to q, times UNIT
NormalOf(p, q) ==
    LET dist == Sqrt(Len2(q[1] - p[1], q[2] - p[2]))
    IN  <<RDiv((q[1] - p[1]) * UNIT, dist), RDiv((q[2] - p[2]) * UNIT, dist)>>

\* the component of v along n, and across it (along the tangent (-ny, nx))
Along(v, n) == RDiv(v[1] * n[1] + v[2] * n[2], UNIT)

Across(v, n) == RDiv(v[2] * n[1] - v[1] * n[2], UNIT)

\* the velocity with the component vn along n and vt across it
Composed(vn, vt, n) ==
    <<RDiv(vn * n[1] - vt * n[2], UNIT), RDiv(vn * n[2] + vt * n[1], UNIT)>>

\* the velocity v is left alone by the clamp that follows the resolver
NotClamped(v) ==
    Len2(v[1], v[2]) <= (MAX_BALL_SPEED * SCALE) * (MAX_BALL_SPEED * SCALE)

\* C17: for the overlapping pair of balls 1 and 2 resolved in a collision
\* pass, with n the line of centres between them, ball 1 leaves with ball 2's
\* component along n and its own component across n, and ball 2 with ball 1's
\* component along n and its own across n (the components along n are
\* exchanged, so their sum is kept, and the tangential ones are unchanged);
\* stated for the velocities that the clamp after the resolver leaves alone.
C17_NormalComponentsExchanged ==
    [][IsCollisionPass /\ Overlap(game.balls[1].pos, game.balls[2].pos)
           => LET n == NormalOf(game'.balls[1].pos, game'.balls[2].pos)
                  va == game.balls[1].vel
                  vb == game.balls[2].vel
                  a == Composed(Along(vb, n), Across(va, n), n)
                  b == Composed(Along(va, n), Across(vb, n), n)
              IN  /\ NotClamped(a) => game'.balls[1].vel = a
                  /\ NotClamped(b) => game'.balls[2].vel = b]_vars

\* C17, reached: a collision pass has pushed balls 1 and 2 apart to just over
\* 2 * BALL_RADIUS on a slanted line of centres and left both in motion
C17_ResolvedOnSlant ==
    /\ pc = "resolved"
    /\ game.balls[1].pos[2] # game.balls[2].pos[2]
    /\ Abs(game.balls[2].pos[1] - game.balls[1].pos[1]) < 2 * BALL_RADIUS * SCALE
    /\ Abs(game.balls[2].pos[2] - game.balls[1].pos[2]) < 2 * BALL_RADIUS * SCALE
    /\ Len2(game.balls[2].pos[1] - game.balls[1].pos[1],
            game.balls[2].pos[2] - game.balls[1].pos[2])
           > (2 * BALL_RADIUS * SCALE) * (2 * BALL_RADIUS * SCALE)
    /\ game.balls[1].vel # <<0, 0>>
    /\ game.balls[2].vel # <<0, 0>>
    /\ game.balls[1].vel # game.balls[2].vel

\* the centres p and q are exactly 2 * BALL_RADIUS apart
Touching(p, q) ==
    /\ Abs(q[1] - p[1]) <= 2 * BALL_RADIUS * SCALE
    /\ Abs(q[2] - p[2]) <= 2 * BALL_RADIUS * SCALE
    /\ Len2(q[1] - p[1], q[2] - p[2])
           = (2 * BALL_RADIUS * SCALE) * (2 * BALL_RADIUS * SCALE)

\* balls 1 and 2 move toward each other along the line of centres at equal
\* speed: opposite velocities, parallel to the line, ball 1's towards ball 2
HeadOn ==
    LET d == <<game.balls[2].pos[1] - game.balls[1].pos[1],
               game.balls[2].pos[2] - game.balls[1].pos[2]>>
        v == game.balls[1].vel
    IN  /\ game.balls[2].vel = <<-v[1], -v[2]>>
        /\ v[1] * (d[2] \div SCALE) = v[2] * (d[1] \div SCALE)
        /\ v[1] * (d[1] \div SCALE) + v[2] * (d[2] \div SCALE) > 0

\* balls 1 and 2 leave the step with each other's velocity and without overlap
SwappedApart ==
    /\ game'.balls[1].vel = game.balls[2].vel
    /\ game'.balls[2].vel = game.balls[1].vel
    /\ ~Overlap(game'.balls[1].pos, game'.balls[2].pos)

\* C18, as stated: two balls whose centres are exactly 2 * BALL_RADIUS apart
\* and that move toward each other at equal speed have, after one collision
\* pass, their velocities swapped along the normal and no overlap.
C18_TouchingPairSwapped ==
    [][IsCollisionPass /\ Touching(game.balls[1].pos, game.balls[2].pos) /\ HeadOn
           => SwappedApart]_vars

\* C18, amended: balls exactly 2 * BALL_RADIUS apart are no colliding pair: a
\* collision pass changes neither their velocities nor their positions; two
\* balls less than 2 * BALL_RADIUS apart that move toward each other at equal
\* speed along the line of centres leave the pass with their velocities
\* swapped and without overlap.
C18_OverlappingPairSwapped ==
    [][IsCollisionPass
           => /\ Touching(game.balls[1].pos, game.balls[2].pos)
                     => game'.balls = game.balls
              /\ Overlap(game.balls[1].pos, game.balls[2].pos) /\ HeadOn
                     => SwappedApart]_vars

\* C18, reached: after a collision pass balls 1 and 2 are exactly
\* 2 * BALL_RADIUS apart and still move toward each other at 20 pixels a frame
C18_StillApproaching ==
    /\ pc = "resolved"
    /\ ~game.balls[1].pocketed
    /\ ~game.balls[2].pocketed
    /\ Touching(game.balls[1].pos, game.balls[2].pos)
    /\ game.balls[1].vel = <<20000, 0>>
    /\ game.balls[2].vel = <<-20000, 0>>

\* the step is HandleInput on a release of the button at m
ReleasedAt(m) ==
    /\ event' = "release"
    /\ game' = HandleInput(game, build, Sample(FALSE, m, FALSE, FALSE, TRUE))

\* where the button is released in the step
ReleasePoints == ReleasePos \cup {LogicalCuePos(game)}

\* (pullDistance / 160) * 22, in thousandths of a pixel per frame
SpeedOfPull == RDiv(game.stickPullPixels * 22, 160)

\* C19: a release while aiming at a point other than the cue ball's centre
\* sets the cue-ball velocity to direction * shotSpeed, with direction the
\* unit vector from the cue ball to the pointer and shotSpeed =
\* (pullDistance / 160) * 22 <= MAX_SHOT_SPEED; it sets state to Playing and
\* clears firstShot and aiming; the cue ball stays where it is and no other
\* ball is changed.
C19_ReleaseShoots ==
    [][\A m \in ReleasePoints :
           ReleasedAt(m) /\ game.aiming /\ m # LogicalCuePos(game)
               => LET c == LogicalCuePos(game)
                      dir == Normalize(m[1] - c[1], m[2] - c[2])
                  IN  /\ SpeedOfPull <= MAX_SHOT_SPEED * SCALE
                      /\ game'.balls[0].vel = <<RDiv(dir[1] * SpeedOfPull, UNIT),
                                                RDiv(dir[2] * SpeedOfPull, UNIT)>>
                      /\ game'.balls[0].vel[1] * ((m[1] - c[1]) \div SCALE) >= 0
                      /\ game'.balls[0].vel[2] * ((m[2] - c[2]) \div SCALE) >= 0
                      /\ game'.state = "Playing"
                      /\ ~game'.firstShot
                      /\ ~game'.aiming
                      /\ game'.balls[0].pos = game.balls[0].pos
                      /\ \A i \in Balls \ {0} : game'.balls[i] = game.balls[i]]_vars

\* C19, reached: the break was shot at full power: the release has just been
\* handled, the rack is untouched, the cue ball has its velocity
C19_BreakShot ==
    /\ pc = "update"
    /\ event = "release"
    /\ shots = 1
    /\ \A i \in Balls : ~game.balls[i].pocketed /\ game.balls[i].pos = RackPosition(i)
    /\ Len2(game.balls[0].vel[1], game.balls[0].vel[2])
           > (MAX_SHOT_SPEED * SCALE - 2) * (MAX_SHOT_SPEED * SCALE - 2)
    /\ game.state = "Playing"
    /\ ~game.firstShot
    /\ ~game.aiming

\* C20: a release while aiming on the cue ball's centre (a drag shorter than
\* 0.001) fires no shot: the cue-ball velocity, state and firstShot are
\* unchanged (as are all balls), and aiming becomes false.
C20_NullGesture ==
    [][ReleasedAt(LogicalCuePos(game)) /\ game.aiming
           => /\ game'.balls = game.balls
              /\ game'.state = game.state
              /\ game'.firstShot = game.firstShot
              /\ ~game'.aiming
              /\ shots' = shots]_vars

\* C20, reached: after a press on the cue ball of the rack and a pull, the
\* button was released on the cue ball's centre: the game is in its start
\* state, not aiming, the stick still pulled and not recoiling
C20_ReleasedOnCue ==
    /\ pc = "update"
    /\ event = "release"
    /\ build = "updated"
    /\ game.state = "Start"
    /\ game.firstShot
    /\ ~game.aiming
    /\ game.stickPullPixels > 0
    /\ ~game.stickRecoil
    /\ game.balls = ResetBalls

\* C21: in state Scratch a press at a point that is not strictly inside the
\* playable interior is rejected: state stays Scratch, the cue ball stays
\* pocketed with its position and velocity, currentPlayer is kept, and the
\* game differs from the one before the press in its status message only.
C21_PlacementRejected ==
    [][\A m \in PressPos :
           PressedAt(m) /\ game.state = "Scratch" /\ ~Interior(m)
               => /\ game'.state = "Scratch"
                  /\ game'.balls[0].pocketed
                  /\ game'.balls[0] = game.balls[0]
                  /\ game'.currentPlayer = game.currentPlayer
                  /\ game'.statusMessage = Message("invalid", -1)
                  /\ [game' EXCEPT !.statusMessage = game.statusMessage] = game]_vars

\* C21, reached: in scratch mode a press on the bottom rail's line has just
\* been rejected
C21_Rejected ==
    /\ pc = "update"
    /\ event = "press"
    /\ game.state = "Scratch"
    /\ game.balls[0].pocketed
    /\ game.statusMessage = Message("invalid", -1)

\* C22: when a ball is pocketed in a tick that ends with the "<player>
\* pocketed a ball!" message, the message names the player who had the turn
\* when the tick began, also in a tick where a scratch swapped currentPlayer.
C22_MessageNamesTurnHolder ==
    [][(/\ IsUpdate
        /\ \E i \in Balls : PocketedNow(i)
        /\ game'.statusMessage.text = "pocketed")
           => game'.statusMessage.player = game.currentPlayer]_vars

\* the step changes state to Won or Lost
BecomesWonOrLost == game'.state # game.state /\ game'.state \in {"Won", "Lost"}

\* C23, as stated: in every step where state changes to Won or Lost the state
\* before the step is Playing, and the step is a tick in which the 8-ball is
\* pocketed.
C23_EndsFromPlaying ==
    [][BecomesWonOrLost
           => game.state = "Playing" /\ IsUpdate /\ PocketedNow(8)]_vars

\* C23, amended: in every step where state changes to Won or Lost the state
\* before the step is Playing or Scratch (never Start), and the step is a tick
\* in which the 8-ball is pocketed.
C23_EndsFromPlayingOrScratch ==
    [][BecomesWonOrLost
           => game.state \in {"Playing", "Scratch"} /\ IsUpdate /\ PocketedNow(8)]_vars

\* C23, reached: the 8-ball was pocketed in the last tick, the cue ball in an
\* earlier tick of the same settle (state was Scratch), and state is Lost
C23_LostFromScratch ==
    /\ pc = "input"
    /\ game.state = "Lost"
    /\ scan.returned
    /\ ~scan.cueBallPocketed
    /\ game.balls[0].pocketed
    /\ scratches = 1

\* C24: in every state firstShot is false whenever state is Playing or
\* Scratch (pocket detection never runs while firstShot is true), both
\* players are unassigned with ballsRemaining 7, assignedTypes is false and
\* state is not Won; every step that pockets the 8-ball ends in state Lost.
C24_GroupsNeverAssigned ==
    /\ [](/\ game.state \in {"Playing", "Scratch"} => ~game.firstShot
          /\ \A p \in {0, 1} :
                 game.players[p] = [type |-> "None", ballsRemaining |-> 7]
          /\ ~game.assignedTypes
          /\ game.state # "Won")
    /\ [][PocketedNow(8) => game'.state = "Lost"]_vars

\* C24, reached: in build previous a tick has pocketed a Solid or Stripe ball
\* (not the cue ball, not the 8-ball) and no player has a group
C24_PocketedUnassigned ==
    /\ pc = "input"
    /\ build = "previous"
    /\ scan.anyPocketed
    /\ ~scan.cueBallPocketed
    /\ ~scan.returned
    /\ ~game.balls[8].pocketed
    /\ ~game.assignedTypes
    /\ game.players[0].type = "None"
    /\ game.players[1].type = "None"

\* the step is the tick of the frame whose release fired a shot with a pull
\* greater than 0
ShotTick ==
    /\ IsUpdate
    /\ event = "release"
    /\ game.stickRecoil
    /\ game.recoilTimer = RECOIL_TIME
    /\ game.stickPullPixels > 0

\* C25: a shot fired with a pull greater than 0 ends the shooter's turn: when
\* the tick after the release leaves every ball at rest and ballsMoving false
\* (no later tick changes anything without input), the shooter is no longer
\* the current player, or state is Scratch, Won or Lost.
C25_ShotEndsTurn ==
    [][ShotTick /\ ~game'.ballsMoving /\ ~AreBallsMoving(game'.balls)
           => \/ game'.currentPlayer # shooter
              \/ game'.state \in {"Scratch", "Won", "Lost"}]_vars

C27_OutcomeNamesShooter == [][BecomesWonOrLost => game'.currentPlayer = shooter]_vars

\* the frame in progress is the one whose release fired a shot
Fired ==
    /\ pc = "update"
    /\ event = "release"
    /\ game.stickRecoil
    /\ game.recoilTimer = RECOIL_TIME

\* a tick has ended with no ball on the table faster than MIN_VELOCITY on an
\* axis and with ballsMoving false
Settled == pc = "input" /\ ~game.ballsMoving /\ ~AreBallsMoving(game.balls)

\* the frame in progress brought a key or a pointer input other than the
\* release that fired the shot
FurtherInput == pc = "update" /\ event \notin {"none", "idle"} /\ ~Fired

\* C28 as stated: settling terminates: after any fired shot, if no further
\* input arrives, a tick is eventually reached after which no ball on the
\* table moves and ballsMoving is false.
C28_SettlingTerminates == Fired ~> (Settled \/ FurtherInput)

\* C28: settling terminates while the game goes on: after any fired shot, if
\* no further input arrives, a tick is eventually reached after which no ball
\* on the table moves and ballsMoving is false, or the 8-ball has fallen and
\* state is Won or Lost (where physics no longer runs).
C28_SettlingTerminatesInPlay ==
    Fired ~> (Settled \/ FurtherInput \/ game.state \in {"Won", "Lost"})

\* C28: a shot was fired and the balls it set rolling have come to rest in
\* this tick, the game still going on.
C28_CameToRest ==
    /\ pc = "input"
    /\ fell
    /\ shots > 0
    /\ game.state = "Playing"
    /\ Settled

\* the balls, the players' records, currentPlayer, ballsMoving and state of
\* the game are the same before and after the step
PlayUnchanged ==
    /\ game'.balls = game.balls
    /\ game'.players = game.players
    /\ game'.currentPlayer = game.currentPlayer
    /\ game'.ballsMoving = game.ballsMoving
    /\ game'.state = game.state

\* C29: physics runs only in Playing and Scratch: in state Start, Won or Lost
\* neither half of a frame, the input without Reset and without a fired shot
\* nor the update that follows it, changes a ball's position, velocity or
\* pocketed flag, a player's record, currentPlayer, ballsMoving or state.
C29_NoPhysicsOutsidePlay ==
    [][game.state \in {"Start", "Won", "Lost"} /\ ~IsReset /\ ~FiresNow
           => PlayUnchanged]_vars

\* C29, reached: a tick was taken in state Lost while the cue ball still had
\* the velocity it had when the 8-ball fell.
C29_FrozenInMotion ==
    /\ pc = "input"
    /\ game.state = "Lost"
    /\ ~scan.returned
    /\ game.ballsMoving
    /\ AreBallsMoving(game.balls)

====
